---- MODULE Spec2Model ----
(***************************************************************************)
(* Model of the ModelCard component                                        *)
(* (xinference/web/ui/src/scenes/launch_model/modelCard.js): the cascading *)
(* format / size / quantization selection, the Browsing / Configuring      *)
(* toggle and launchModel's two-step fetch chain, for several card         *)
(* instances that share the ApiContext flags.                              *)
(*                                                                         *)
(* One action is one browser task: a DOM event handler together with the   *)
(* re-render and the effects it schedules, or the settlement of a fetch    *)
(* together with the promise reactions (microtasks) that follow it.        *)
(***************************************************************************)
EXTENDS Integers, Sequences, FiniteSets, TLC

\* ---------------------------------------------------------------- bounds
\* Number of launches (uuidv1 values drawn) explored.
MaxLaunches == 2

\* ---------------------------------------------------------------- JS values
\* modelSize holds "" until a MenuItem value (a number) is chosen.
Str(s) == [t |-> "string", n |-> 0, s |-> s]
Num(n) == [t |-> "number", n |-> n, s |-> ""]
NaN == [t |-> "NaN", n |-> 0, s |-> ""]

\* JavaScript truthiness of a string or number value.
Truthy(x) == IF x.t = "string" THEN x.s # "" ELSE x.t = "number" /\ x.n # 0

\* parseFloat: a number converts to itself (through its decimal string),
\* a string without a leading numeral converts to NaN.
parseFloat(x) == IF x.t = "number" THEN x ELSE NaN

\* spec.model_size_in_billions === parseFloat(modelSize); NaN equals nothing.
StrictEqNum(n, x) == x.t = "number" /\ x.n = n

\* ---------------------------------------------------------------- catalog
Spec3(f, s, q) ==
  [model_format |-> f, model_size_in_billions |-> s, quantizations |-> q]

BuiltinModel ==
  [model_name |-> "llama-2", is_builtin |-> TRUE,
   model_specs |-> << Spec3("pytorch", 7, <<"int4", "int8">>),
                      Spec3("pytorch", 13, <<"int4">>) >>]

CustomModel ==
  [model_name |-> "custom", is_builtin |-> FALSE,
   model_specs |-> << Spec3("ggmlv3", 13, <<"q4_0">>),
                      Spec3("pytorch", 7, <<"none">>) >>]

\* The registered models. The parent renders one ModelCard per model, all
\* under the same ApiContext.
Models == <<BuiltinModel, CustomModel>>
Cards == DOMAIN Models
ModelOf(c) == Models[c]

url == "http://xinference"

\* ---------------------------------------------------------------- helpers
Range(s) == {s[i] : i \in DOMAIN s}

\* [...new Set(seq)]: the distinct elements in order of first appearance.
RECURSIVE Dedup(_)
Dedup(s) ==
  IF s = <<>> THEN <<>>
  ELSE LET init == Dedup(SubSeq(s, 1, Len(s) - 1))
           last == s[Len(s)]
       IN IF last \in Range(init) THEN init ELSE Append(init, last)

\* Array.prototype.map / filter / flatMap over model_specs.
RECURSIVE FlatMapQuants(_)
FlatMapQuants(specs) ==
  IF specs = <<>> THEN <<>>
  ELSE specs[1].quantizations \o FlatMapQuants(Tail(specs))

FormatMatches(spec, fmt) == spec.model_format = fmt
FilterFormat(specs, fmt) == SelectSeq(specs, LAMBDA sp : FormatMatches(sp, fmt))

SizeMatches(spec, fmt, size) ==
  /\ spec.model_format = fmt
  /\ StrictEqNum(spec.model_size_in_billions, parseFloat(size))
FilterFormatSize(specs, fmt, size) ==
  SelectSeq(specs, LAMBDA sp : SizeMatches(sp, fmt, size))

FormatsOfAllVariants(md) ==
  [i \in DOMAIN md.model_specs |-> md.model_specs[i].model_format]

Formats(md) ==
  Dedup([i \in DOMAIN md.model_specs |-> md.model_specs[i].model_format])

Sizes(md, fmt) ==
  LET m == FilterFormat(md.model_specs, fmt)
  IN Dedup([i \in DOMAIN m |-> m[i].model_size_in_billions])

Quants(md, fmt, size) ==
  Dedup(FlatMapQuants(FilterFormatSize(md.model_specs, fmt, size)))

\* ---------------------------------------------------------------- state
VARIABLES
  modelData,            \* prop of each card
  selected,             \* useState(false)
  modelFormat,          \* useState("")
  modelSize,            \* useState("")
  quantization,         \* useState("")
  formatOptions,        \* useState([])
  sizeOptions,          \* useState([])
  quantizationOptions,  \* useState([])
  isCallingApi,         \* ApiContext
  isUpdatingModel,      \* ApiContext
  nextUuid,             \* uuidv1 generator state
  chains,               \* promise chains started by launchModel, by uuid
  trace,                \* observable events of the chains in `chains`
  lastEvent             \* the kind of event handled by the last step

cardVars == <<selected, modelFormat, modelSize, quantization,
              formatOptions, sizeOptions, quantizationOptions>>
vars == <<modelData, selected, modelFormat, modelSize, quantization,
          formatOptions, sizeOptions, quantizationOptions,
          isCallingApi, isUpdatingModel, nextUuid, chains, trace, lastEvent>>

\* Chains are keyed by their uuid.
NoChains == [id \in {} |-> 0]
Pending(ch) == {id \in DOMAIN ch : ch[id].pc \in {"fetch1", "fetch2"}}

\* lastEvent tells a click on a launch button, and whether launchModel went
\* past its guard, from every other event.
NoEvent == "other"
LaunchEvent(ran) == IF ran THEN "launched" ELSE "refused"
LaunchEvents == {"launched", "refused"}

\* ---------------------------------------------------------------- events
Outcomes == {"reject", "json", "notjson"}

EvSet(id, v) == [ev |-> "setIsCallingApi", id |-> id, n |-> 0, arg |-> <<v>>]
EvFetch(id, n, u, body) == [ev |-> "fetch", id |-> id, n |-> n, arg |-> <<u, body>>]
EvSettle(id, n, o) == [ev |-> "settle", id |-> id, n |-> n, arg |-> <<o>>]
EvJson(id, n, o) == [ev |-> "response.json", id |-> id, n |-> n, arg |-> <<o>>]
EvOpen(id, u) == [ev |-> "window.open", id |-> id, n |-> 0, arg |-> <<u>>]
EvError(id) == [ev |-> "console.error", id |-> id, n |-> 0, arg |-> <<>>]

\* JSON.stringify of modelDataWithID: the members in insertion order.
JSONstringify(o) ==
  << <<"model_uid", o.model_uid>>, <<"model_name", o.model_name>>,
     <<"model_format", o.model_format>>,
     <<"model_size_in_billions", o.model_size_in_billions>>,
     <<"quantization", o.quantization>> >>

\* ---------------------------------------------------------------- Init
Init ==
  /\ modelData = [c \in Cards |-> ModelOf(c)]
  /\ selected = [c \in Cards |-> FALSE]
  /\ modelFormat = [c \in Cards |-> ""]
  /\ modelSize = [c \in Cards |-> Str("")]
  /\ quantization = [c \in Cards |-> ""]
  /\ formatOptions = [c \in Cards |-> Formats(modelData[c])]
  /\ sizeOptions = [c \in Cards |-> <<>>]
  /\ quantizationOptions = [c \in Cards |-> <<>>]
  /\ isCallingApi = FALSE
  /\ isUpdatingModel = FALSE
  /\ nextUuid = 1
  /\ chains = NoChains
  /\ trace = <<>>
  /\ lastEvent = NoEvent

\* ---------------------------------------------------------------- selection
SizeOptionsEffectOnlyFirst(c, fmt) ==
  IF fmt # "" /\ sizeOptions[c] = <<>> THEN Sizes(modelData[c], fmt)
  ELSE sizeOptions[c]

\* useEffect [modelFormat, modelData]: size options after a render in which
\* the format is fmt.
SizeOptionsEffect(c, fmt) ==
  IF fmt # "" THEN Sizes(modelData[c], fmt) ELSE sizeOptions[c]

QuantizationOptionsEffectFormatOnly(c, fmt, size) ==
  IF fmt # ""
  THEN IF Truthy(size) THEN Quants(modelData[c], fmt, size)
       ELSE Dedup(FlatMapQuants(FilterFormat(modelData[c].model_specs, fmt)))
  ELSE quantizationOptions[c]

QuantizationOptionsEffectOnlyFirst(c, fmt, size) ==
  IF fmt # "" /\ Truthy(size) /\ quantizationOptions[c] = <<>>
  THEN Quants(modelData[c], fmt, size)
  ELSE quantizationOptions[c]

\* useEffect [modelFormat, modelSize, modelData].
QuantizationOptionsEffect(c, fmt, size) ==
  IF fmt # "" /\ Truthy(size) THEN Quants(modelData[c], fmt, size)
  ELSE quantizationOptions[c]

\* The parameter card is slid in only while `selected`.
ParameterCardShown(c) == selected[c]

\* Model Format <Select> onChange.
SelectFormat(c, f) ==
  /\ ParameterCardShown(c)
  /\ f \in Range(formatOptions[c])
  /\ f # modelFormat[c]
  /\ modelFormat' = [modelFormat EXCEPT ![c] = f]
  /\ sizeOptions' = [sizeOptions EXCEPT ![c] = SizeOptionsEffect(c, f)]
  /\ quantizationOptions' =
       [quantizationOptions EXCEPT ![c] = QuantizationOptionsEffect(c, f, modelSize[c])]
  /\ lastEvent' = NoEvent
  /\ UNCHANGED <<modelData, selected, modelSize, quantization, formatOptions,
                 isCallingApi, isUpdatingModel, nextUuid, chains, trace>>

\* <FormControl disabled={!modelFormat}> of the Model Size control.
SizeDisabled(c) == modelFormat[c] = ""

\* Model Size <Select> onChange.
SelectSize(c, s) ==
  /\ ParameterCardShown(c)
  /\ ~SizeDisabled(c)
  /\ s \in Range(sizeOptions[c])
  /\ Num(s) # modelSize[c]
  /\ modelSize' = [modelSize EXCEPT ![c] = Num(s)]
  /\ quantizationOptions' =
       [quantizationOptions EXCEPT ![c] = QuantizationOptionsEffect(c, modelFormat[c], Num(s))]
  /\ lastEvent' = NoEvent
  /\ UNCHANGED <<modelData, selected, modelFormat, quantization, formatOptions,
                 sizeOptions, isCallingApi, isUpdatingModel, nextUuid, chains, trace>>

\* The Quantization control is rendered for built-in models and for "pytorch".
QuantizationShown(c) == modelData[c].is_builtin \/ modelFormat[c] = "pytorch"

\* <FormControl disabled={!modelFormat || !modelSize}> of the Quantization
\* control.
QuantizationDisabled(c) == modelFormat[c] = "" \/ ~Truthy(modelSize[c])

\* Quantization <Select> onChange.
SelectQuantization(c, q) ==
  /\ ParameterCardShown(c)
  /\ QuantizationShown(c)
  /\ ~QuantizationDisabled(c)
  /\ q \in Range(quantizationOptions[c])
  /\ q # quantization[c]
  /\ quantization' = [quantization EXCEPT ![c] = q]
  /\ lastEvent' = NoEvent
  /\ UNCHANGED <<modelData, selected, modelFormat, modelSize, formatOptions,
                 sizeOptions, quantizationOptions,
                 isCallingApi, isUpdatingModel, nextUuid, chains, trace>>

\* ---------------------------------------------------------------- card toggle
BoxOnClickToggles(sel) == ~sel

\* <Box onClick>: if (!selected) setSelected(true), with the value of
\* `selected` the handler closed over.
BoxOnClick(sel) == IF ~sel THEN TRUE ELSE sel

\* A click on the card outside its controls, in either state.
ClickCard(c) ==
  /\ selected' = [selected EXCEPT ![c] = BoxOnClick(selected[c])]
  /\ lastEvent' = NoEvent
  /\ UNCHANGED <<modelData, modelFormat, modelSize, quantization, formatOptions,
                 sizeOptions, quantizationOptions,
                 isCallingApi, isUpdatingModel, nextUuid, chains, trace>>

ClickUndoResets(c) ==
  /\ ParameterCardShown(c)
  /\ selected' = [selected EXCEPT ![c] = FALSE]
  /\ modelFormat' = [modelFormat EXCEPT ![c] = ""]
  /\ modelSize' = [modelSize EXCEPT ![c] = Str("")]
  /\ quantization' = [quantization EXCEPT ![c] = ""]
  /\ lastEvent' = NoEvent
  /\ UNCHANGED <<modelData, formatOptions, sizeOptions, quantizationOptions,
                 isCallingApi, isUpdatingModel, nextUuid, chains, trace>>

\* Undo button: setSelected(false); the click then bubbles to the Box, whose
\* handler still sees selected = true and does nothing.
ClickUndo(c) ==
  /\ ParameterCardShown(c)
  /\ selected' = [selected EXCEPT ![c] = IF ~selected[c] THEN TRUE ELSE FALSE]
  /\ lastEvent' = NoEvent
  /\ UNCHANGED <<modelData, modelFormat, modelSize, quantization, formatOptions,
                 sizeOptions, quantizationOptions,
                 isCallingApi, isUpdatingModel, nextUuid, chains, trace>>

\* ---------------------------------------------------------------- launch
SelectionCompleteNoQuantization(c) ==
  modelFormat[c] # "" /\ Truthy(modelSize[c])

\* The selection the launch button requires (its `disabled` expression).
SelectionComplete(c) ==
  /\ modelFormat[c] # ""
  /\ Truthy(modelSize[c])
  /\ (quantization[c] # ""
      \/ (~modelData[c].is_builtin /\ modelFormat[c] # "pytorch"))

BusyIgnoresUpdating == isCallingApi
BusyIgnoresCalling == isUpdatingModel

\* isCallingApi || isUpdatingModel, as the handlers of one render read it.
Busy == isCallingApi \/ isUpdatingModel

\* disabled={isCallingApi || isUpdatingModel || !(...)} of the launch button.
LaunchDisabled(c) == Busy \/ ~SelectionComplete(c)

\* const modelDataWithID = {...}
ModelDataWithID(c, uuid) ==
  [model_uid |-> uuid,
   model_name |-> modelData[c].model_name,
   model_format |-> modelFormat[c],
   model_size_in_billions |-> modelSize[c],
   quantization |-> quantization[c]]

Fetch1(id, body) == EvFetch(id, 1, <<url, "/v1/models">>, JSONstringify(body))
Fetch2(id, body) == EvFetch(id, 2, <<url, "/v1/ui/", id>>, JSONstringify(body))

\* A settled chain's closure (modelDataWithID) is garbage. Its record and its
\* events stay observable until the next launch that finds no chain pending;
\* through that launch only its uuid and its outcome are remembered, and
\* after it nothing.
Discarded == [model_uid |-> 0, model_name |-> "", model_format |-> "",
              model_size_in_billions |-> Str(""), quantization |-> ""]
Kept(ch) ==
  IF Pending(ch) = {}
  THEN [id \in {i \in DOMAIN ch : ch[i].card # 0} |->
          [ch[id] EXCEPT !.modelDataWithID = Discarded, !.card = 0]]
  ELSE ch
KeptTrace == IF Pending(chains) = {} THEN <<>> ELSE trace

launchModelBothFetches(c) ==
  IF Busy
  THEN UNCHANGED <<isCallingApi, nextUuid, chains, trace>>
  ELSE LET uuid == nextUuid
           body == ModelDataWithID(c, uuid)
       IN /\ isCallingApi' = TRUE
          /\ nextUuid' = nextUuid + 1
          /\ chains' = Kept(chains) @@
                        (uuid :> [card |-> c, uuid |-> uuid,
                                  modelDataWithID |-> body, pc |-> "fetch1"])
          /\ trace' = KeptTrace \o <<EvSet(uuid, TRUE), Fetch1(uuid, body),
                                     Fetch2(uuid, body)>>

\* launchModel(url): the synchronous part, up to the first fetch.
launchModel(c) ==
  IF Busy
  THEN UNCHANGED <<isCallingApi, nextUuid, chains, trace>>
  ELSE LET uuid == nextUuid
           body == ModelDataWithID(c, uuid)
       IN /\ isCallingApi' = TRUE
          /\ nextUuid' = nextUuid + 1
          /\ chains' = Kept(chains) @@
                        (uuid :> [card |-> c, uuid |-> uuid,
                                  modelDataWithID |-> body, pc |-> "fetch1"])
          /\ trace' = KeptTrace \o <<EvSet(uuid, TRUE), Fetch1(uuid, body)>>

\* A click on the launch button: nothing if it is disabled, else launchModel.
ClickLaunch(c) ==
  /\ ParameterCardShown(c)
  /\ LaunchDisabled(c) \/ nextUuid <= MaxLaunches
  /\ IF LaunchDisabled(c)
     THEN /\ UNCHANGED <<isCallingApi, nextUuid, chains, trace>>
     ELSE launchModel(c)
  /\ lastEvent' = LaunchEvent(nextUuid' # nextUuid)
  /\ selected' = [selected EXCEPT ![c] = BoxOnClick(selected[c])]
  /\ UNCHANGED <<modelData, modelFormat, modelSize, quantization, formatOptions,
                 sizeOptions, quantizationOptions, isUpdatingModel>>

\* .catch((error) => { console.error(...); setIsCallingApi(false); })
Catch(id) == <<EvError(id), EvSet(id, FALSE)>>

SecondBodyFromState(id) == ModelDataWithID(chains[id].card, id)

\* body: JSON.stringify(modelDataWithID) of the second fetch: the object the
\* closure of this launchModel call holds.
SecondBody(id) == chains[id].modelDataWithID

Settle1RejectFallsThrough(id, o) ==
  /\ id \in DOMAIN chains
  /\ chains[id].pc = "fetch1"
  /\ IF o = "reject"
     THEN trace' = trace \o <<EvSettle(id, 1, o), EvError(id),
                               Fetch2(id, SecondBody(id))>>
     ELSE trace' = trace \o <<EvSettle(id, 1, o), EvJson(id, 1, o),
                               Fetch2(id, SecondBody(id))>>
  /\ chains' = [chains EXCEPT ![id].pc = "fetch2"]
  /\ lastEvent' = NoEvent
  /\ UNCHANGED <<modelData, cardVars, isCallingApi, isUpdatingModel, nextUuid>>

Settle1RetriesOnce(id, o) ==
  /\ id \in DOMAIN chains
  /\ chains[id].pc = "fetch1"
  /\ IF o = "reject"
     THEN IF Cardinality({i \in DOMAIN trace : trace[i].ev = "fetch" /\ trace[i].id = id}) < 2
          THEN /\ trace' = trace \o <<EvSettle(id, 1, o),
                                      Fetch1(id, chains[id].modelDataWithID)>>
               /\ UNCHANGED <<isCallingApi, chains>>
          ELSE /\ trace' = trace \o <<EvSettle(id, 1, o)>> \o Catch(id)
               /\ isCallingApi' = FALSE
               /\ chains' = [chains EXCEPT ![id].pc = "failed"]
     ELSE /\ trace' = trace \o <<EvSettle(id, 1, o), EvJson(id, 1, o),
                                 Fetch2(id, SecondBody(id))>>
          /\ isCallingApi' = isCallingApi
          /\ chains' = [chains EXCEPT ![id].pc = "fetch2"]
  /\ lastEvent' = NoEvent
  /\ UNCHANGED <<modelData, cardVars, isUpdatingModel, nextUuid>>

Settle1ClearsEarly(id, o) ==
  /\ id \in DOMAIN chains
  /\ chains[id].pc = "fetch1"
  /\ IF o = "reject"
     THEN /\ trace' = trace \o <<EvSettle(id, 1, o)>> \o Catch(id)
          /\ chains' = [chains EXCEPT ![id].pc = "failed"]
     ELSE /\ trace' = trace \o <<EvSettle(id, 1, o), EvJson(id, 1, o),
                                 EvSet(id, FALSE), Fetch2(id, SecondBody(id))>>
          /\ chains' = [chains EXCEPT ![id].pc = "fetch2"]
  /\ isCallingApi' = FALSE
  /\ lastEvent' = NoEvent
  /\ UNCHANGED <<modelData, cardVars, isUpdatingModel, nextUuid>>

\* The first fetch settles; on fulfilment the two reactions that follow run:
\* response.json() is called and its promise dropped, then the second fetch
\* is issued.
Settle1(id, o) ==
  /\ id \in DOMAIN chains
  /\ chains[id].pc = "fetch1"
  /\ IF o = "reject"
     THEN /\ trace' = trace \o <<EvSettle(id, 1, o)>> \o Catch(id)
          /\ isCallingApi' = FALSE
          /\ chains' = [chains EXCEPT ![id].pc = "failed"]
     ELSE /\ trace' = trace \o <<EvSettle(id, 1, o), EvJson(id, 1, o),
                                 Fetch2(id, SecondBody(id))>>
          /\ isCallingApi' = isCallingApi
          /\ chains' = [chains EXCEPT ![id].pc = "fetch2"]
  /\ lastEvent' = NoEvent
  /\ UNCHANGED <<modelData, cardVars, isUpdatingModel, nextUuid>>

Settle2RejectKeepsFlag(id, o) ==
  /\ id \in DOMAIN chains
  /\ chains[id].pc = "fetch2"
  /\ IF o = "reject"
     THEN /\ trace' = trace \o <<EvSettle(id, 2, o), EvError(id)>>
          /\ chains' = [chains EXCEPT ![id].pc = "failed"]
          /\ isCallingApi' = isCallingApi
     ELSE /\ trace' = trace \o <<EvSettle(id, 2, o), EvJson(id, 2, o),
                                 EvOpen(id, <<url, "/", id>>), EvSet(id, FALSE)>>
          /\ chains' = [chains EXCEPT ![id].pc = "success"]
          /\ isCallingApi' = FALSE
  /\ lastEvent' = NoEvent
  /\ UNCHANGED <<modelData, cardVars, isUpdatingModel, nextUuid>>

Settle2ResetsSelection(id, o) ==
  /\ id \in DOMAIN chains
  /\ chains[id].pc = "fetch2"
  /\ IF o = "reject"
     THEN /\ trace' = trace \o <<EvSettle(id, 2, o)>> \o Catch(id)
          /\ chains' = [chains EXCEPT ![id].pc = "failed"]
          /\ UNCHANGED cardVars
     ELSE /\ trace' = trace \o <<EvSettle(id, 2, o), EvJson(id, 2, o),
                                 EvOpen(id, <<url, "/", id>>), EvSet(id, FALSE)>>
          /\ chains' = [chains EXCEPT ![id].pc = "success"]
          /\ selected' = [selected EXCEPT ![chains[id].card] = FALSE]
          /\ quantization' = [quantization EXCEPT ![chains[id].card] = ""]
          /\ UNCHANGED <<modelFormat, modelSize, formatOptions, sizeOptions,
                         quantizationOptions>>
  /\ isCallingApi' = FALSE
  /\ lastEvent' = NoEvent
  /\ UNCHANGED <<modelData, isUpdatingModel, nextUuid>>

\* The second fetch settles; on fulfilment response.json() is called and its
\* promise dropped, then the endpoint is opened and the flag cleared.
Settle2(id, o) ==
  /\ id \in DOMAIN chains
  /\ chains[id].pc = "fetch2"
  /\ IF o = "reject"
     THEN /\ trace' = trace \o <<EvSettle(id, 2, o)>> \o Catch(id)
          /\ chains' = [chains EXCEPT ![id].pc = "failed"]
     ELSE /\ trace' = trace \o <<EvSettle(id, 2, o), EvJson(id, 2, o),
                                 EvOpen(id, <<url, "/", id>>), EvSet(id, FALSE)>>
          /\ chains' = [chains EXCEPT ![id].pc = "success"]
  /\ isCallingApi' = FALSE
  /\ lastEvent' = NoEvent
  /\ UNCHANGED <<modelData, cardVars, isUpdatingModel, nextUuid>>

\* The owner of the ApiContext sets or clears isUpdatingModel.
SetIsUpdatingModel(b) ==
  /\ b # isUpdatingModel
  /\ isUpdatingModel' = b
  /\ lastEvent' = NoEvent
  /\ UNCHANGED <<modelData, cardVars, isCallingApi, nextUuid, chains, trace>>

\* ---------------------------------------------------------------- Next
AllFormats == {"pytorch", "ggmlv3"}
AllSizes == {7, 13}
AllQuants == {"int4", "int8", "q4_0", "none"}

Next ==
  \/ \E c \in Cards : ClickCard(c)
  \/ \E c \in Cards : ClickUndo(c)
  \/ \E c \in Cards, f \in AllFormats : SelectFormat(c, f)
  \/ \E c \in Cards, s \in AllSizes : SelectSize(c, s)
  \/ \E c \in Cards, q \in AllQuants : SelectQuantization(c, q)
  \/ \E c \in Cards : ClickLaunch(c)
  \/ \E id \in 1..MaxLaunches, o \in Outcomes : Settle1(id, o)
  \/ \E id \in 1..MaxLaunches, o \in Outcomes : Settle2(id, o)
  \/ \E b \in BOOLEAN : SetIsUpdatingModel(b)

Spec == Init /\ [][Next]_vars

\* Every fetch that was issued eventually fulfils or rejects.
FairSpec ==
  /\ Spec
  /\ \A id \in 1..MaxLaunches :
       /\ WF_vars(\E o \in Outcomes : Settle1(id, o))
       /\ WF_vars(\E o \in Outcomes : Settle2(id, o))

TypeOK ==
  /\ isCallingApi \in BOOLEAN
  /\ isUpdatingModel \in BOOLEAN
  /\ nextUuid \in 1..(MaxLaunches + 1)

\* ---------------------------------------------------------------- observations
\* Positions in the trace of the events of chain id.
FetchAt(id, n) ==
  {i \in DOMAIN trace : trace[i].ev = "fetch" /\ trace[i].id = id /\ trace[i].n = n}
SettleAt(id, n) ==
  {i \in DOMAIN trace : trace[i].ev = "settle" /\ trace[i].id = id /\ trace[i].n = n}
SettledAs(id, n, o) ==
  \E i \in SettleAt(id, n) : trace[i].arg[1] = o
OpenAt(id) ==
  {i \in DOMAIN trace : trace[i].ev = "window.open" /\ trace[i].id = id}
ErrorAt(id) ==
  {i \in DOMAIN trace : trace[i].ev = "console.error" /\ trace[i].id = id}
SetAt(id, v) ==
  {i \in DOMAIN trace :
     trace[i].ev = "setIsCallingApi" /\ trace[i].id = id /\ trace[i].arg[1] = v}
Ids == 1..MaxLaunches

\* ---------------------------------------------------------------- claims

\* C1: request 2 (POST /v1/ui/{model_uid}) of an attempt is issued only after
\* request 1 (POST /v1/models) of that attempt was issued and its response
\* received: the two calls are sequential, never parallel, never reordered.
C1_SecondCallAfterFirstResponse ==
  \A id \in Ids : \A i \in FetchAt(id, 2) :
    \E j \in SettleAt(id, 1) : \E k \in FetchAt(id, 1) : k < j /\ j < i

\* C1 witness: request 2 of some attempt has been issued.
C1_Witness == \E id \in Ids : FetchAt(id, 2) # {}

\* C2: a click on the launch control while isCallingApi or isUpdatingModel is
\* true issues no call, draws no uuid, opens no window and leaves both flags
\* as they were.
C2_BusyLaunchRefused ==
  [][(lastEvent' \in LaunchEvents /\ (isCallingApi \/ isUpdatingModel))
       => UNCHANGED <<isCallingApi, isUpdatingModel, nextUuid, chains, trace>>]_vars

\* The last step was a click on a launch button that started no launch.
LaunchClickRefused == lastEvent = "refused"

\* C2 witness: a launch click was refused while another launch holds
\* isCallingApi, every card it can have been on having a complete selection.
C2_Witness ==
  /\ LaunchClickRefused
  /\ isCallingApi /\ ~isUpdatingModel
  /\ \A c \in Cards : selected[c] =>
       modelFormat[c] # "" /\ quantization[c] # "" /\ modelSize[c] # Str("")

\* A selection is complete iff format and size are non-empty and
\* (quantization is non-empty or the model is non-built-in with a format
\* other than "pytorch").
CompleteSelection(c) ==
  /\ modelFormat[c] # "" /\ modelSize[c] # Str("")
  /\ (quantization[c] # ""
      \/ (~modelData[c].is_builtin /\ modelFormat[c] # "pytorch"))

\* C3: a click on the launch control with an incomplete selection issues no
\* network call and does not set isCallingApi.
C3_IncompleteLaunchRefused ==
  [][\A c \in Cards :
       (ClickLaunch(c) /\ ~CompleteSelection(c))
         => UNCHANGED <<isCallingApi, nextUuid, chains, trace>>]_vars

\* C3 witness: with both flags false a launch click was refused, every card
\* it can have been on having a format and a size but lacking the
\* quantization it needs.
C3_Witness ==
  /\ LaunchClickRefused
  /\ ~isCallingApi /\ ~isUpdatingModel
  /\ \A c \in Cards : selected[c] =>
       /\ modelFormat[c] # "" /\ modelSize[c] # Str("")
       /\ ~CompleteSelection(c)

\* C4: at most one launch attempt is between its entry into Launching and its
\* terminal transition, whichever cards the launches are triggered from.
C4_AtMostOneInFlight == Cardinality(Pending(chains)) <= 1

\* C4 witness: while the launch of one card is pending and that card is
\* back in Browsing, a launch click on another card, whose selection is
\* complete, was handled.
C4_Witness ==
  /\ LaunchClickRefused
  /\ \E id \in Pending(chains) : ~selected[chains[id].card]
  /\ \A c \in Cards : selected[c] => CompleteSelection(c)

\* The calls, the open and the clearing of the flag of chain id, in order.
Visible(e) ==
  \/ e.ev \in {"fetch", "window.open"}
  \/ e.ev = "setIsCallingApi" /\ e.arg[1] = FALSE
EffectsOf(id) ==
  LET es == SelectSeq(trace, LAMBDA e : e.id = id /\ Visible(e))
  IN [i \in DOMAIN es |-> <<es[i].ev, es[i].n>>]

BothSucceeded(id) == SettledAs(id, 1, "json") /\ SettledAs(id, 2, "json")

\* The event order of a launch whose two calls both succeed.
C5_OrderOnSuccess ==
  \A id \in Ids : BothSucceeded(id) =>
    /\ EffectsOf(id) = << <<"fetch", 1>>, <<"fetch", 2>>,
                          <<"window.open", 0>>, <<"setIsCallingApi", 0>> >>
    /\ \A i \in FetchAt(id, 1) : trace[i].arg[1] = <<url, "/v1/models">>
    /\ \A i \in FetchAt(id, 2) : trace[i].arg[1] = <<url, "/v1/ui/", id>>
    /\ \A i \in OpenAt(id) : trace[i].arg[1] = <<url, "/", id>>
    /\ (Pending(chains) = {} => ~isCallingApi)

\* C5: a launch whose two calls both succeed issues one call to /v1/models,
\* then one call to /v1/ui/{id}, then opens {baseUrl}/{id} once, then clears
\* the in-flight flag; the endpoint is opened only if both calls of the
\* attempt succeeded (fulfilled with a decodable body).
C5_OpenOnlyAfterBothSucceed ==
  /\ C5_OrderOnSuccess
  /\ \A id \in Ids : OpenAt(id) # {} => BothSucceeded(id)

\* C6: when a call of an attempt rejects, the error is logged, the flag is
\* cleared, the endpoint is not opened, and after a rejected first call the
\* second call is not issued.
C6_RejectFails ==
  \A id \in Ids : \A n \in {1, 2} : SettledAs(id, n, "reject") =>
    /\ chains[id].pc = "failed"
    /\ \A i \in SettleAt(id, n) :
         /\ \E j \in ErrorAt(id) : i < j
         /\ \E j \in SetAt(id, FALSE) : i < j
    /\ OpenAt(id) = {}
    /\ (n = 1 => FetchAt(id, 2) = {})
    /\ (Pending(chains) = {} => ~isCallingApi)

\* C6 witness: the first call of an attempt was rejected.
C6_Witness == \E id \in Ids : SettledAs(id, 1, "reject")

\* C7: when a response body cannot be decoded as JSON, the attempt fails as
\* for a rejected call: the error is logged, the flag is cleared through the
\* catch handler, the endpoint is not opened, and after a non-decodable first
\* response the second call is not issued.
C7_UndecodableFails ==
  \A id \in Ids : \A n \in {1, 2} : SettledAs(id, n, "notjson") =>
    /\ chains[id].pc = "failed"
    /\ ErrorAt(id) # {}
    /\ OpenAt(id) = {}
    /\ (n = 1 => FetchAt(id, 2) = {})

\* C8: within one attempt the model_uid of request 1's body, the id in
\* request 2's URL and body and the id in the opened URL are the same, and
\* request 2 carries the body of request 1, whatever the selection is by then.
C8_SameIdSamePayload ==
  \A id \in Ids :
    /\ \A i \in FetchAt(id, 1) : \A j \in FetchAt(id, 2) :
         /\ trace[j].arg[2] = trace[i].arg[2]
         /\ trace[j].arg[1] = <<url, "/v1/ui/", trace[i].arg[2][1][2]>>
    /\ \A i \in FetchAt(id, 1) : \A j \in OpenAt(id) :
         trace[j].arg[1] = <<url, "/", trace[i].arg[2][1][2]>>
    /\ \A i \in FetchAt(id, 1) \cup FetchAt(id, 2) :
         [k \in 1..5 |-> trace[i].arg[2][k][1]] =
           <<"model_uid", "model_name", "model_format",
             "model_size_in_billions", "quantization">>

\* C8 witness: request 2 was issued after the card's selection had moved away
\* from the payload of request 1.
C8_Witness ==
  \E id \in Ids : \E i \in FetchAt(id, 1) :
    /\ FetchAt(id, 2) # {}
    /\ id \in Pending(chains)
    /\ \/ trace[i].arg[2][3][2] # modelFormat[chains[id].card]
       \/ trace[i].arg[2][4][2] # modelSize[chains[id].card]
       \/ trace[i].arg[2][5][2] # quantization[chains[id].card]

\* C9: whenever a launch is in Launching, eventually no launch is (each one
\* reached Success or Failed) and the in-flight flag is cleared, after which
\* the launch control of a card with a complete selection is enabled again
\* (unless the model list is updating).
C9_LaunchTerminates ==
  (Pending(chains) # {}) ~>
    (/\ Pending(chains) = {}
     /\ \A id \in DOMAIN chains : chains[id].pc \in {"success", "failed"}
     /\ ~isCallingApi
     /\ \A c \in Cards :
          (CompleteSelection(c) /\ ~isUpdatingModel) => ~LaunchDisabled(c))

\* C9 witness: an attempt has reached a terminal state after its second call.
C9_Witness ==
  \E id \in Ids :
    /\ id \in DOMAIN chains /\ chains[id].pc \in {"success", "failed"}
    /\ SettleAt(id, 2) # {}
    /\ ~isCallingApi

NumFetch(tr, id, n) ==
  Cardinality({i \in DOMAIN tr : tr[i].ev = "fetch" /\ tr[i].id = id /\ tr[i].n = n})

\* C10: an attempt issues at most one call to /v1/models and at most one to
\* /v1/ui/{id}; a call to /v1/models is issued only by a launch click and
\* carries an id never drawn before; a call to /v1/ui/{id} is issued only by
\* the pending attempt id whose first call just fulfilled. So after a
\* failure nothing is sent until the next launch click.
C10_NoRetry ==
  /\ [](\A id \in Ids : \A n \in {1, 2} : Cardinality(FetchAt(id, n)) <= 1)
  /\ [](\A id \in DOMAIN chains : id < nextUuid)
  /\ [][\A id \in Ids :
         /\ NumFetch(trace', id, 1) > NumFetch(trace, id, 1) =>
              /\ lastEvent' \in LaunchEvents
              /\ id \notin DOMAIN chains
              /\ id >= nextUuid
         /\ NumFetch(trace', id, 2) > NumFetch(trace, id, 2) =>
              /\ id \in DOMAIN chains
              /\ chains[id].pc = "fetch1"]_vars

\* C10 witness: after an attempt whose first call succeeded and whose second
\* call failed, a new attempt with a new id has issued its request 1.
C10_Witness ==
  \E old \in Ids : \E new \in Ids :
    /\ old \in DOMAIN chains /\ new \in DOMAIN chains
    /\ chains[old].pc = "failed"
    /\ old < new
    /\ FetchAt(new, 1) # {}

\* ---------------------------------------------------------------- catalogs
\* Option derivation over every catalog entry of at most MaxSpecs variants:
\* the first card shows such an entry, the other cards an entry without
\* variants; only the selection controls and the card toggle are operated.
MaxSpecs == 2

QuantLists == {<<"int4">>, <<"int8">>, <<"int4", "int8">>}
Variants ==
  {Spec3(f, s, q) : f \in AllFormats, s \in AllSizes, q \in QuantLists}
SeqsUpTo(S, n) == UNION {[1..k -> S] : k \in 0..n}
EmptyModel == [model_name |-> "empty", is_builtin |-> TRUE, model_specs |-> <<>>]
Entries ==
  {[model_name |-> "any", is_builtin |-> b, model_specs |-> vs] :
     b \in BOOLEAN, vs \in SeqsUpTo(Variants, MaxSpecs)}

DeriveInit ==
  /\ \E e \in Entries :
       modelData = [c \in Cards |-> IF c = 1 THEN e ELSE EmptyModel]
  /\ selected = [c \in Cards |-> FALSE]
  /\ modelFormat = [c \in Cards |-> ""]
  /\ modelSize = [c \in Cards |-> Str("")]
  /\ quantization = [c \in Cards |-> ""]
  /\ formatOptions = [c \in Cards |-> Formats(modelData[c])]
  /\ sizeOptions = [c \in Cards |-> <<>>]
  /\ quantizationOptions = [c \in Cards |-> <<>>]
  /\ isCallingApi = FALSE
  /\ isUpdatingModel = FALSE
  /\ nextUuid = 1
  /\ chains = NoChains
  /\ trace = <<>>
  /\ lastEvent = NoEvent

DeriveNext ==
  \/ \E c \in Cards : ClickCard(c)
  \/ \E c \in Cards : ClickUndo(c)
  \/ \E c \in Cards, f \in AllFormats : SelectFormat(c, f)
  \/ \E c \in Cards, s \in AllSizes : SelectSize(c, s)
  \/ \E c \in Cards, q \in AllQuants : SelectQuantization(c, q)

DeriveSpec == DeriveInit /\ [][DeriveNext]_vars

\* The variants of card c's catalog entry, and what the claims expect of
\* the option lists.
VariantsOf(c) == Range(modelData[c].model_specs)
NoDuplicates(s) == \A i \in DOMAIN s : \A j \in DOMAIN s : s[i] = s[j] => i = j

\* C11: once a format f is chosen, the size options are exactly the distinct
\* sizes of the catalog variants whose format is f, each once, whatever
\* formats and sizes were chosen before.
C11_SizeOptionsOfCurrentFormat ==
  \A c \in Cards : modelFormat[c] # "" =>
    /\ NoDuplicates(sizeOptions[c])
    /\ Range(sizeOptions[c]) =
         {v.model_size_in_billions :
            v \in {x \in VariantsOf(c) : x.model_format = modelFormat[c]}}

\* C11 witness: the format was changed after a size had been chosen, to a
\* format that does not come in that size.
C11_Witness ==
  \E c \in Cards :
    /\ modelFormat[c] # "" /\ modelSize[c] # Str("")
    /\ modelSize[c].n \notin Range(sizeOptions[c])
    /\ sizeOptions[c] # <<>>

\* The catalog entry of the scenario: (pytorch, 7, [int4, int8]) and
\* (pytorch, 13, [int4]).
ScenarioSpecs ==
  << Spec3("pytorch", 7, <<"int4", "int8">>), Spec3("pytorch", 13, <<"int4">>) >>

\* C12: once a format f and a size s are chosen, the quantization options
\* are the deduplicated union of the quantizations of the variants with
\* format f and size s (empty when none matches); for the scenario entry,
\* size 7 gives [int4, int8] and size 13 gives [int4].
C12_QuantizationOptionsOfFormatAndSize ==
  \A c \in Cards : (modelFormat[c] # "" /\ modelSize[c] # Str("")) =>
    /\ NoDuplicates(quantizationOptions[c])
    /\ Range(quantizationOptions[c]) =
         UNION {Range(v.quantizations) :
                  v \in {x \in VariantsOf(c) :
                           /\ x.model_format = modelFormat[c]
                           /\ x.model_size_in_billions = modelSize[c].n}}
    /\ (modelData[c].model_specs = ScenarioSpecs /\ modelSize[c].n = 7)
         => quantizationOptions[c] = <<"int4", "int8">>
    /\ (modelData[c].model_specs = ScenarioSpecs /\ modelSize[c].n = 13)
         => quantizationOptions[c] = <<"int4">>

\* C12 witness: in the scenario, size 13 was chosen after size 7 and int8.
C12_Witness ==
  \E c \in Cards :
    /\ modelData[c].model_specs = ScenarioSpecs
    /\ modelFormat[c] = "pytorch" /\ modelSize[c] = Num(13)
    /\ quantization[c] = "int8"
    /\ quantizationOptions[c] = <<"int4">>

\* The position at which format f first appears among the variants of c.
FirstSeen(c, f) ==
  CHOOSE k \in DOMAIN modelData[c].model_specs :
    /\ modelData[c].model_specs[k].model_format = f
    /\ \A m \in 1..(k - 1) : modelData[c].model_specs[m].model_format # f

\* C13: for every catalog entry, the format options are the distinct formats
\* of its variants, each exactly once, in order of first appearance.
C13_FormatOptionsDistinctInOrder ==
  \A c \in Cards :
    /\ NoDuplicates(formatOptions[c])
    /\ Range(formatOptions[c]) = {v.model_format : v \in VariantsOf(c)}
    /\ \A i \in DOMAIN formatOptions[c] : \A j \in DOMAIN formatOptions[c] :
         i < j => FirstSeen(c, formatOptions[c][i]) < FirstSeen(c, formatOptions[c][j])

\* C13 witness: a card is open whose entry lists a ggmlv3 variant before a
\* pytorch variant.
C13_Witness ==
  \E c \in Cards :
    /\ selected[c]
    /\ Len(modelData[c].model_specs) = 2
    /\ modelData[c].model_specs[1].model_format = "ggmlv3"
    /\ formatOptions[c] = <<"ggmlv3", "pytorch">>

\* The Selection and the derived option lists of card c.
SelectionOf(c) == <<modelFormat[c], modelSize[c], quantization[c]>>
OptionsOf(c) == <<formatOptions[c], sizeOptions[c], quantizationOptions[c]>>

\* C14: a step that takes a card from Configuring back to Browsing, and a
\* step that takes it into Configuring again, leave its selection and its
\* three option lists as they were.
C14_ToggleKeepsSelection ==
  [][\A c \in Cards :
       selected'[c] # selected[c] =>
         /\ SelectionOf(c)' = SelectionOf(c)
         /\ OptionsOf(c)' = OptionsOf(c)]_vars

\* C14 witness: a card is back in Browsing with a full selection and its
\* option lists retained.
C14_Witness ==
  \E c \in Cards :
    /\ ~selected[c]
    /\ modelFormat[c] # "" /\ modelSize[c] # Str("") /\ quantization[c] # ""
    /\ sizeOptions[c] # <<>> /\ quantizationOptions[c] # <<>>

\* C15: while a network call of an attempt is outstanding isCallingApi is
\* true; the flag is set before request 1 is issued and is written false only
\* at the terminal transition of the attempt, after its last request, never
\* between request 1 and request 2.
C15_FlagCoversOutstandingCalls ==
  /\ (Pending(chains) # {} => isCallingApi)
  /\ \A id \in Ids :
       /\ \A i \in FetchAt(id, 1) : \E j \in SetAt(id, TRUE) : j < i
       /\ \A k \in SetAt(id, FALSE) :
            /\ id \in DOMAIN chains /\ chains[id].pc \in {"success", "failed"}
            /\ k = Len(trace)
            /\ \A i \in FetchAt(id, 1) \cup FetchAt(id, 2) : i < k

\* C15 witness: request 1 of an attempt was answered and request 2 is
\* outstanding, with the flag still set and never written false.
C15_Witness ==
  \E id \in DOMAIN chains :
    /\ chains[id].pc = "fetch2"
    /\ isCallingApi
    /\ SettleAt(id, 1) # {} /\ SetAt(id, FALSE) = {}

\* The payload names a combination of the catalog entry of card c: a variant
\* with its format and a numerically equal size, and offering its
\* quantization when that is not empty.
InCatalog(c, body) ==
  \E v \in VariantsOf(c) :
    /\ FormatMatches(v, body.model_format)
    /\ StrictEqNum(v.model_size_in_billions, parseFloat(body.model_size_in_billions))
    /\ (body.quantization # "" => body.quantization \in Range(v.quantizations))

\* C16: the payload of every launch request that is issued names a
\* combination that exists in the catalog, whatever sequence of selection
\* changes preceded the launch.
C16_PayloadInCatalog ==
  \A id \in Pending(chains) :
    /\ FetchAt(id, 1) # {}
    /\ InCatalog(chains[id].card, chains[id].modelDataWithID)

\* C17: while no format is chosen the size options and the quantization
\* options keep their initial empty value, and while no size is chosen the
\* quantization options are empty; the size control is disabled exactly
\* while the format is unset, the quantization control exactly while the
\* format or the size is unset.
C17_UnsetKeepsOptionsEmpty ==
  \A c \in Cards :
    /\ modelFormat[c] = "" => sizeOptions[c] = <<>> /\ quantizationOptions[c] = <<>>
    /\ modelSize[c] = Str("") => quantizationOptions[c] = <<>>
    /\ SizeDisabled(c) <=> modelFormat[c] = ""
    /\ QuantizationDisabled(c) <=> (modelFormat[c] = "" \/ modelSize[c] = Str(""))

\* C17 witness: a format is chosen and offers sizes, no size is chosen yet:
\* the size control is enabled, the quantization control is not and its
\* options are still empty although variants of the format have some.
C17_Witness ==
  \E c \in Cards :
    /\ modelFormat[c] # "" /\ modelSize[c] = Str("")
    /\ sizeOptions[c] # <<>> /\ quantizationOptions[c] = <<>>
    /\ ~SizeDisabled(c) /\ QuantizationDisabled(c)
    /\ FlatMapQuants(FilterFormat(modelData[c].model_specs, modelFormat[c])) # <<>>

\* C18: the card toggle has exactly these transitions: a click on the card
\* while Browsing moves it to Configuring; a click on the card while
\* Configuring, the launch control included, leaves it Configuring; a click
\* on the return control while Configuring ends in Browsing although the
\* click also reaches the card's handler. No other step changes the state.
C18_ToggleTransitions ==
  [][\A c \in Cards :
       /\ ClickCard(c) => selected'[c]
       /\ ClickLaunch(c) => selected[c] /\ selected'[c]
       /\ ClickUndo(c) => selected[c] /\ ~selected'[c]
       /\ (~selected[c] /\ selected'[c]) => ClickCard(c)
       /\ (selected[c] /\ ~selected'[c]) => ClickUndo(c)]_vars

\* C18 witness: one card is Configuring right after a click on its launch
\* control while another one, configured before, is back in Browsing.
C18_Witness ==
  \E c, d \in Cards :
    /\ c # d
    /\ selected[c] /\ lastEvent \in LaunchEvents
    /\ ~selected[d] /\ modelFormat[d] # ""

\* A step of a launch attempt: a click on a launch control or the settling
\* of one of the attempt's requests.
LaunchStep == lastEvent' \in LaunchEvents \/ chains' # chains \/ trace' # trace

\* C19: a launch attempt, from its entry through its responses to its
\* terminal transition, successful or not, changes only isCallingApi: the
\* selection, the three option lists and `selected` of every card are
\* unchanged, and no step of it writes isUpdatingModel.
C19_LaunchChangesOnlyFlag ==
  [][LaunchStep => UNCHANGED <<cardVars, isUpdatingModel, modelData>>]_vars

\* C19 witness: an attempt ended in success and its card is still
\* Configuring with the selection that went into the payload.
C19_Witness ==
  \E id \in DOMAIN chains :
    /\ chains[id].pc = "success" /\ chains[id].card # 0
    /\ ~isCallingApi /\ ~isUpdatingModel
    /\ LET c == chains[id].card
           body == chains[id].modelDataWithID
       IN /\ selected[c]
          /\ SelectionOf(c) = <<body.model_format, body.model_size_in_billions,
                                body.quantization>>
          /\ sizeOptions[c] # <<>>

====
